---- MODULE Spec2Model ----
(***************************************************************************)
(* Plan execution engine of Bolt (packages/core/src/planner.ts).           *)
(*                                                                         *)
(* Two revisions of the runner are in the tree and both are modelled:      *)
(*   variant = "core"    src/packages/core/src/planner.ts                  *)
(*   variant = "budget"  src/unnamed/part_007 (adds the latency budget,    *)
(*                        per-step timeouts and retrying map children)     *)
(*                                                                         *)
(* One action of the model is one synchronous segment of the JavaScript    *)
(* code, i.e. the code that runs between two awaits.                       *)
(***************************************************************************)
EXTENDS Integers, Sequences, FiniteSets, TLC

(* ------------------------------ bounds -------------------------------- *)
MaxRetry == 2        \* guard.retry.max ranges over 0..MaxRetry
NItems == 2          \* the array a map step iterates has 0..NItems elements
MaxConc == 2         \* opts.maxConcurrency is unset or ranges over 1..MaxConc
NTasks == 3          \* tasks handed to a stand-alone pool
MaxDepth == 2        \* nesting depth of the inputs a cache signature is taken of
MaxRuns == 2         \* runPlan invocations in a row on one cache

(* ------------------------- program constants -------------------------- *)
DefaultMaxConc == 3  \* opts.maxConcurrency ?? 3
Absent == -1         \* an optional numeric field that is not set
DefaultBackoffMs == 400  \* s.guard?.retry?.backoffMs ?? 400
DefaultTTL == 300    \* opts.defaultStepTTLSeconds ?? 300

(* ------------------------------ values -------------------------------- *)
(* A JavaScript value: undefined, a scalar n, or an array of values.      *)
Undef == [k |-> "undef", n |-> 0, a |-> <<>>]
Val(n) == [k |-> "val", n |-> n, a |-> <<>>]
Arr(s) == [k |-> "arr", n |-> 0, a |-> s]
IsArray(v) == v.k = "arr"
IsNullish(v) == v.k = "undef"

NoErr == "none"
NoUnit == <<"", 0>>
BaseInput == Val(5)
CachedValue == Val(77)

(* ------------------------------- plans -------------------------------- *)
NoChild ==
  [kind |-> "none", max |-> Absent, cacheKey |-> "", schema |-> FALSE, toolId |-> "",
   inputFrom |-> <<>>]
\* args of a tool step: none, or the placeholder { var: ref }
NoArgs == [var |-> ""]
NoStep ==
  [id |-> "", kind |-> "none", max |-> Absent, cacheKey |-> "", schema |-> FALSE,
   toolId |-> "", inputFrom |-> <<>>, children |-> <<>>, maxConcurrency |-> Absent,
   branches |-> <<>>, else |-> <<>>, itemsFrom |-> "", child |-> NoChild,
   fromItemAsInput |-> FALSE, backoffMs |-> Absent, timeoutMs |-> Absent, args |-> NoArgs]

Model(id, max, from) ==
  [NoStep EXCEPT !.id = id, !.kind = "model", !.max = max, !.inputFrom = from]
Cached(s, key) == [s EXCEPT !.cacheKey = key]
Guarded(s, b, sch, t) == [s EXCEPT !.backoffMs = b, !.schema = sch, !.timeoutMs = t]
AsTool(s) == [s EXCEPT !.kind = "tool", !.toolId = "t"]
Parallel(id, children, k) ==
  [NoStep EXCEPT !.id = id, !.kind = "parallel", !.children = children, !.maxConcurrency = k]
Branch(id, branches, else) ==
  [NoStep EXCEPT !.id = id, !.kind = "branch", !.branches = branches, !.else = else]
Gt(ref, value) == [op |-> "gt", ref |-> ref, value |-> value]
MapOver(id, itemsFrom, max, k) ==
  [NoStep EXCEPT !.id = id, !.kind = "map", !.itemsFrom = itemsFrom, !.maxConcurrency = k,
     !.fromItemAsInput = TRUE,
     !.child = [NoChild EXCEPT !.kind = "model", !.max = max]]

Ids == {"s1", "s2", "fan", "a", "b", "c", "synth", "x", "br", "hi", "lo", "src", "m"}
MapIds == {"m"}
Tools == {"t"}

(* Two leaf steps in sequence; the first one may carry a cache key. *)
SeqPlan(n, key) ==
  [steps |-> << Cached(Model("s1", n, <<>>), key), Model("s2", Absent, <<"s1">>) >>,
   outputs |-> <<"s2">>]
(* The fan-out shape of createHeuristicPlan: a group, its children, a synthesis. *)
FanPlan(n, k) ==
  [steps |-> << Parallel("fan", <<"a", "b", "c">>, k), Model("a", n, <<>>),
                Model("b", 0, <<>>), Model("c", 0, <<>>),
                Model("synth", Absent, <<"a", "b">>) >>,
   outputs |-> <<"synth", "fan">>]
(* The branch of the spec's example: x > 5 ? hi : lo. *)
BranchPlan(n) ==
  [steps |-> << Model("x", n, <<>>),
                Branch("br", << [when |-> Gt("x", 5), then |-> <<"hi">>] >>, <<"lo">>),
                Model("hi", 0, <<>>), Model("lo", 0, <<>>) >>,
   outputs |-> <<"hi", "lo">>]
(* A map over the array produced by src, each element passed as the child's input. *)
MapPlan(n, k) ==
  [steps |-> << Model("src", 0, <<>>), MapOver("m", "src", n, k) >>,
   outputs |-> <<"m">>]

(* A group whose second child names no step of the plan. *)
BadFanPlan ==
  [steps |-> << Model("s1", 0, <<>>), Parallel("fan", <<"a", "ghost">>, Absent),
                Model("a", 0, <<>>) >>,
   outputs |-> <<"a">>]
(* A step whose inputFrom names no step of the plan. *)
DanglingPlan ==
  [steps |-> << Model("s1", 0, <<"ghost">>) >>,
   outputs |-> <<"s1">>]
(* A group with a map step as its child. *)
ParMapPlan ==
  [steps |-> << Model("src", 0, <<>>), Parallel("fan", <<"m">>, Absent),
                MapOver("m", "src", 0, Absent) >>,
   outputs |-> <<"m">>]

(* Branch entries after x: a matching branch with an empty then-sequence   *)
(* and an else; two branches that both match x = 10; a branch without else. *)
BranchPlans ==
  {[steps |-> << Model("x", 0, <<>>), Branch("br", bs[1], bs[2]),
                 Model("hi", 0, <<>>), Model("lo", 0, <<>>) >>,
    outputs |-> <<"hi", "lo">>] :
     bs \in {<< << [when |-> Gt("x", 5), then |-> <<>>] >>, <<"lo">> >>,
             << << [when |-> Gt("x", 0), then |-> <<"hi">>],
                   [when |-> Gt("x", 5), then |-> <<"lo">>] >>, <<>> >>,
             << << [when |-> Gt("x", 5), then |-> <<"hi", "lo">>] >>, <<>> >>}}

(* A map over the output of a step that returns a number, and over the    *)
(* output of a step the plan does not have.                                *)
NonArrayMapPlans ==
  {[steps |-> << Model("s1", 0, <<>>), MapOver("m", from, 0, Absent) >>,
    outputs |-> <<"m">>] : from \in {"s1", "ghost"}}

\* the plans a run is given; the map that shares the run-level limit retries
\* its child at most once, the map with its own limit of 1 up to n times
Plans(n) ==
  {SeqPlan(n, ""), SeqPlan(n, "auto"), FanPlan(n, Absent), FanPlan(n, 1),
   BranchPlan(n), MapPlan(IF n > 1 THEN 1 ELSE n, Absent), MapPlan(n, 1),
   BadFanPlan, DanglingPlan, ParMapPlan} \cup BranchPlans \cup NonArrayMapPlans

Units == (Ids \X {0}) \cup (MapIds \X (1..NItems))
PoolTasks == {"t"} \X (1..NTasks)

VARIABLES
  variant,    \* which revision of planner.ts runs
  plan,       \* runPlan's plan argument
  opts,       \* runPlan's opts argument
  pc,         \* where runPlan's top-level loop stands
  pos,        \* index of the current entry of plan.steps
  seq,        \* step ids still to run in the selected branch sequence
  out,        \* the outputs Map
  outputs,    \* the object runPlan returned
  err,        \* the error runPlan raised
  ex,         \* per leaf / map element: state of its execution
  pools,      \* the concurrency pools: active count and waiter queue
  rej,        \* per pool: first rejection seen by the Promise.all of its group
  items,      \* the array the running map step iterates
  results,    \* the results array of the running map step
  cache,      \* content of the step cache
  over,       \* elapsed time exceeds budget.maxLatencyMs
  tstate,     \* stand-alone pool: state of each task
  keyIn,      \* autoCacheKey, deepResolve: the arguments of the function
  keyOut,     \* autoCacheKey, deepResolve: the values computed
  events,     \* the plan and done events delivered to onEvent so far
  peer        \* another runPlan invocation on the same cache: its execution of a step

vars == <<variant, plan, opts, pc, pos, seq, out, outputs, err, ex, pools, rej,
          items, results, cache, over, tstate, keyIn, keyOut, events, peer>>

(* ------------------------- plan and outputs --------------------------- *)
NSteps == Len(plan.steps)
HasStep(id) == \E i \in 1..NSteps : plan.steps[i].id = id
\* stepById = new Map(plan.steps.map(s => [s.id, s])): the last entry with an id wins
StepOf(id) ==
  plan.steps[CHOOSE i \in 1..NSteps :
               /\ plan.steps[i].id = id
               /\ \A j \in 1..NSteps : plan.steps[j].id = id => j <= i]
OutGet(id) == IF id \in DOMAIN out THEN out[id] ELSE Undef

readInputs_AlwaysArray(s) ==
  IF Len(s.inputFrom) = 0 THEN BaseInput
  ELSE Arr([i \in 1..Len(s.inputFrom) |-> OutGet(s.inputFrom[i])])
\* const readInputs = (s) => ...
readInputs(s) ==
  IF Len(s.inputFrom) = 0 THEN BaseInput
  ELSE LET arr == [i \in 1..Len(s.inputFrom) |-> OutGet(s.inputFrom[i])]
       IN IF Len(arr) = 1 THEN arr[1] ELSE Arr(arr)

maxConc_Raw == IF opts.maxConcurrency = Absent THEN DefaultMaxConc ELSE opts.maxConcurrency
maxConc ==
  LET c == IF opts.maxConcurrency = Absent THEN DefaultMaxConc ELSE opts.maxConcurrency
  IN IF c > 1 THEN c ELSE 1

(* The step record execWithRetry works on: a plan step, or the child      *)
(* template of a map step instantiated for one element.                   *)
IsElem(u) == u[2] > 0
LeafOf(u) ==
  IF IsElem(u)
  THEN LET ms == StepOf(u[1])
       IN [NoStep EXCEPT !.id = u[1], !.kind = ms.child.kind, !.max = ms.child.max,
                         !.cacheKey = ms.child.cacheKey, !.schema = ms.child.schema,
                         !.toolId = ms.child.toolId, !.inputFrom = ms.child.inputFrom]
  ELSE StepOf(u[1])
MaxOf(s) == IF s.max = Absent THEN 0 ELSE s.max

(* ------------------------------ cache --------------------------------- *)
NoKey == [pre |-> "none", unit |-> NoUnit, sig |-> Undef, lit |-> ""]
CacheHas(key) == \E e \in cache : e.key = key
CacheGet(key) == IF CacheHas(key) THEN (CHOOSE e \in cache : e.key = key).val ELSE Undef
CacheSet_Drop(key, v) == cache
CacheSet(key, v) == {e \in cache : e.key # key} \cup {[key |-> key, val |-> v]}

\* the args of a tool step as written in the plan: the placeholder object itself
HasArgs(s) == s.kind = "tool" /\ s.args # NoArgs
RawArgs(s) == [k |-> "var", n |-> 0, a |-> <<>>]
\* deepResolve(rawArgs, refValue): { var: ref } is replaced by out.get(ref)
deepResolve(s, input) == IF HasArgs(s) THEN OutGet(s.args.var) ELSE input
\* what the collaborator is called with: planner.ts 216-218 resolves the args,
\* part_007 175 passes s.args as written
CallArg(s, input) ==
  IF variant = "core" THEN deepResolve(s, input)
  ELSE IF HasArgs(s) THEN RawArgs(s) ELSE input

\* planner.ts 46-50: the signature holds input for a model step, s.args ?? input
\* for a tool step
autoCacheKey(u, s, input) ==
  [pre |-> "step", unit |-> u, sig |-> IF HasArgs(s) THEN RawArgs(s) ELSE input, lit |-> s.kind]
\* planner.ts 194-196: a key only for a step that declares cacheKey, used only with a cache
CoreCacheKey(u, s, input) ==
  IF ~opts.cache THEN NoKey
  ELSE IF s.cacheKey = "auto" THEN autoCacheKey(u, s, input)
  ELSE IF s.cacheKey # "" THEN [pre |-> "", unit |-> NoUnit, sig |-> Undef, lit |-> s.cacheKey]
  ELSE NoKey
\* part_007 178-183: with a cache every step gets a key, declared or not
deriveCacheKey(u, s, input) ==
  IF ~opts.cache THEN NoKey
  ELSE IF s.cacheKey # "" /\ s.cacheKey # "auto"
       THEN [pre |-> "step", unit |-> u, sig |-> Undef, lit |-> s.cacheKey]
  ELSE [pre |-> "step", unit |-> u, sig |-> input, lit |-> ""]
CacheKeyOf(u, s, input) ==
  IF variant = "core" THEN CoreCacheKey(u, s, input) ELSE deriveCacheKey(u, s, input)

(* ------------------------------- pool --------------------------------- *)
pool(limit) == [active |-> 0, queue |-> <<>>, limit |-> limit]
\* run(), up to its first await: wait in the queue when the pool is full
PoolMustWait(p) == p.active >= p.limit
PoolEnqueue(p, t) == [p EXCEPT !.queue = Append(@, t)]
\* run(), after the wait (if any): active++
PoolAdmit(p) == [p EXCEPT !.active = @ + 1]
\* run(), finally block: active--, then wake the head of the queue
PoolWoken_Last(p) == IF Len(p.queue) > 0 THEN p.queue[Len(p.queue)] ELSE NoUnit
PoolWoken(p) == IF Len(p.queue) > 0 THEN Head(p.queue) ELSE NoUnit
PoolRelease_Keep(p) == p
PoolRelease(p) ==
  [p EXCEPT !.active = @ - 1, !.queue = IF Len(@) > 0 THEN Tail(@) ELSE @]

(* ------------------------ one leaf execution -------------------------- *)
Ex0 ==
  [st |-> "idle", attempt |-> 0, calls |-> 0, nfail |-> 0, runs |-> 0,
   starts |-> 0, retries |-> 0, dones |-> 0, doneVal |-> Undef, ret |-> Undef,
   err |-> NoErr, arg |-> Undef, key |-> NoKey, pre |-> Undef,
   owner |-> 0, via |-> "none", slot |-> FALSE, late |-> FALSE,
   announced |-> 0, sleep |-> 0, ttl |-> Absent, nrej |-> 0, rejVal |-> Undef,
   ntimeout |-> 0, aborts |-> 0, resolved |-> Undef, abandoned |-> 0]

Terminal == {"done", "raised"}
InFlightStates == {"cacheget", "calling", "cacheset", "backoff", "mapstart", "mapwait"}

\* a fresh execution of unit u, launched while the top-level loop is at entry pos
Fresh(r, via) ==
  [Ex0 EXCEPT !.runs = r.runs + 1, !.owner = pos, !.via = via, !.slot = (via # "main")]

Done(r, v) == [r EXCEPT !.st = "done", !.ret = v, !.dones = @ + 1, !.doneVal = v]
Fatal(r, e) == [r EXCEPT !.st = "raised", !.err = e]
BackoffOf(s) == IF s.backoffMs = Absent THEN DefaultBackoffMs ELSE s.backoffMs
SleepMs_Fixed(s, attempt) == BackoffOf(s)
\* setTimeout(res, backoff * attempt)
SleepMs(s, attempt) == BackoffOf(s) * attempt
\* attempt++; step:retry with the new attempt number; sleep
Retry(r, s, e) ==
  [r EXCEPT !.attempt = @ + 1, !.retries = @ + 1, !.st = "backoff", !.err = e,
            !.announced = r.attempt + 1, !.sleep = SleepMs(s, r.attempt + 1)]
Catch_OffByOne(r, s, e) ==
  IF r.attempt > MaxOf(s) THEN Fatal(r, e) ELSE Retry(r, s, e)
\* catch (err): rethrow when the retry budget is used up, else announce a retry and sleep
Catch(r, s, e) ==
  IF r.attempt >= MaxOf(s) THEN Fatal(r, e) ELSE Retry(r, s, e)

\* doExec()/doStep(): the collaborator is invoked; part_007 then runs the
\* "budget check while waiting" inside the try block (line 233)
Invoke(r, s, input, over2) ==
  IF s.kind # "model" /\ s.toolId \notin Tools THEN Catch(r, s, "toolnotfound")
  ELSE LET r1 == [r EXCEPT !.calls = @ + 1, !.arg = CallArg(s, input), !.st = "calling"]
       IN IF variant = "budget" /\ over2 THEN Catch(r1, s, "budget") ELSE r1

\* top of the while(true) loop: step:start, (part_007: budget check outside the
\* try block, line 195), inputs, cache key, then either cache.get or the call
StartAttempt(r, u, s, input, over1, over2) ==
  LET r1 == [r EXCEPT !.starts = @ + 1, !.resolved = deepResolve(s, input)]
      key == CacheKeyOf(u, s, input)
  IN IF variant = "budget" /\ over1 THEN Fatal(r1, "budget")
     ELSE IF key # NoKey
          THEN [r1 EXCEPT !.st = "cacheget", !.key = key, !.arg = input,
                          !.pre = IF r.attempt = 0 THEN CacheGet(key) ELSE @]
          ELSE Invoke([r1 EXCEPT !.key = NoKey], s, input, over2)

OnCacheGet_Ignore(r, s, hit, over2) == Invoke(r, s, r.arg, over2)
\* cache.get returned: a non-null hit ends the step, a miss goes on to the call
OnCacheGet(r, s, hit, over2) ==
  IF ~IsNullish(hit) THEN Done(r, hit) ELSE Invoke(r, s, r.arg, over2)

\* the schema the guarded steps carry: a number above 5
safeParse(v) == [success |-> v.k = "val" /\ v.n > 5]
validate_Accept(s, v) == TRUE
\* validate(s.guard, result)
validate(s, v) == IF ~s.schema THEN TRUE ELSE safeParse(v).success
defaultTTL_NoDefault == opts.defaultStepTTLSeconds
\* planner.ts 99: Math.max(0, opts.defaultStepTTLSeconds ?? 300)
\* part_007 240: opts.defaultStepTTLSeconds ?? 300
defaultTTL ==
  LET t == IF opts.defaultStepTTLSeconds = Absent THEN DefaultTTL
           ELSE opts.defaultStepTTLSeconds
  IN IF variant = "core" /\ t < 0 THEN 0 ELSE t

\* the call returned v: validate, then cache.set or step:done; late records
\* that the elapsed time was above the budget when the await resumed (no
\* checkBudget() follows the await, part_007 234-244)
OnResult(r, s, v, valid) ==
  LET r1 == [r EXCEPT !.late = over]
  IN IF s.schema /\ ~valid
     THEN Catch([r1 EXCEPT !.nrej = @ + 1, !.rejVal = v], s, "schema")
     ELSE IF r.key # NoKey THEN [r1 EXCEPT !.st = "cacheset", !.ret = v, !.ttl = defaultTTL]
     ELSE Done(r1, v)
\* the call threw
OnThrow(r, s) == Catch([r EXCEPT !.nfail = @ + 1], s, "call")

(* What the collaborator may return to unit u called with input. *)
IdSeq == <<"s1", "s2", "fan", "a", "b", "c", "synth", "x", "br", "hi", "lo", "src", "m">>
StepCode(id) == 20 + (CHOOSE i \in 1..Len(IdSeq) : IdSeq[i] = id)
ItemAt(i) == Val(10 + i)
Returns(u, input) ==
  IF IsElem(u) THEN {Val(100 + input.n)}
  ELSE IF u[1] = "x" THEN {Val(1), Val(10)}
  ELSE IF u[1] = "src" THEN {Arr([i \in 1..n |-> ItemAt(i)]) : n \in 0..NItems}
  ELSE IF HasArgs(LeafOf(u)) THEN {Val(200 + input.n)}
  ELSE {Val(StepCode(u[1]))}

(* --------------------------- conditions ------------------------------- *)
\* Boolean(v)
Truthy(v) == IsArray(v) \/ (v.k = "val" /\ v.n # 0)
\* branch conditions over { var: ref } and { value: n }; a comparison with a
\* value that is not a number is false
evalCondition(c) ==
  LET lhs == OutGet(c.ref)
  IN CASE c.op = "truthy" -> Truthy(lhs)
       [] c.op = "eq" -> lhs.k = "val" /\ lhs.n = c.value
       [] c.op = "gt" -> lhs.k = "val" /\ lhs.n > c.value
       [] c.op = "lt" -> lhs.k = "val" /\ lhs.n < c.value
       [] OTHER -> FALSE
\* s.branches.find(b => evalCondition(b.when)): index of the first match, 0 if none
Picked(s) ==
  IF \E i \in 1..Len(s.branches) : evalCondition(s.branches[i].when)
  THEN CHOOSE i \in 1..Len(s.branches) :
         /\ evalCondition(s.branches[i].when)
         /\ \A j \in 1..(i - 1) : ~evalCondition(s.branches[j].when)
  ELSE 0
\* planner.ts 301: picked ? picked.then : s.else ?? []
\* part_007 400: picked?.then?.length ? picked.then : bs.else ?? []
BranchSeq(s) ==
  LET i == Picked(s)
  IN IF variant = "core"
     THEN (IF i > 0 THEN s.branches[i].then ELSE s.else)
     ELSE (IF i > 0 /\ Len(s.branches[i].then) > 0 THEN s.branches[i].then ELSE s.else)

(* ------------------------------ budget -------------------------------- *)
HasBudget == variant = "budget" /\ opts.budget
\* the wall clock may pass the budget while a segment runs
OverNext == IF over \/ ~HasBudget THEN {over} ELSE {FALSE, TRUE}

(* ----------------------- tasks handed to a pool ----------------------- *)
\* the input of a map child for element i
FirstDefined(ids) ==
  IF \E i \in 1..Len(ids) : ~IsNullish(OutGet(ids[i]))
  THEN OutGet(ids[CHOOSE i \in 1..Len(ids) :
                /\ ~IsNullish(OutGet(ids[i]))
                /\ \A j \in 1..(i - 1) : IsNullish(OutGet(ids[j]))])
  ELSE Undef
ElemInput(u, its) ==
  LET ms == StepOf(u[1])
      item == its[u[2]]
  IN IF ms.fromItemAsInput THEN item
     ELSE IF variant = "core" THEN readInputs(ms.child)
     ELSE IF Len(ms.child.inputFrom) > 0 THEN FirstDefined(ms.child.inputFrom)
     ELSE item
InputOf(u, its) == IF IsElem(u) THEN ElemInput(u, its) ELSE readInputs(StepOf(u[1]))

\* planner.ts 326-346: a map child is called directly, without the retry wrapper
BareCall(r, s, input) ==
  IF s.kind # "model" /\ s.toolId \notin Tools THEN Fatal(r, "toolnotfound")
  ELSE [r EXCEPT !.calls = @ + 1, !.arg = input, !.st = "calling"]
IsBare(u) == IsElem(u) /\ variant = "core"

\* the function a pool runs once the task is admitted, up to its first await
TaskBody(r, u, its, over1, over2) ==
  IF variant = "budget" /\ over1 THEN Fatal(r, "budget")
  ELSE IF IsBare(u) THEN BareCall(r, LeafOf(u), InputOf(u, its))
  ELSE IF ~IsElem(u) /\ StepOf(u[1]).kind = "map" THEN [r EXCEPT !.st = "mapstart"]
  ELSE StartAttempt(r, u, LeafOf(u), InputOf(u, its), over1, over2)

\* pool.run(task) for the units us in order, each admitted at once or queued
RECURSIVE Submit(_, _, _, _, _, _, _)
Submit(us, e, p, via, its, over1, over2) ==
  IF us = <<>> THEN [ex |-> e, pool |-> p]
  ELSE LET u == Head(us)
       IN IF PoolMustWait(p)
          THEN Submit(Tail(us),
                      [e EXCEPT ![u] = [@ EXCEPT !.st = "queued", !.via = via,
                                                 !.owner = pos, !.slot = FALSE]],
                      PoolEnqueue(p, u), via, its, over1, over2)
          ELSE Submit(Tail(us),
                      [e EXCEPT ![u] = TaskBody(Fresh(@, via), u, its, over1, over2)],
                      PoolAdmit(p), via, its, over1, over2)

SetAt_Push(res, i, v) == Append(res, v)
\* results[idx] = r on a JavaScript array
SetAt(res, i, v) ==
  [j \in 1..(IF Len(res) > i THEN Len(res) ELSE i) |->
     IF j = i THEN v ELSE IF j <= Len(res) THEN res[j] ELSE Undef]

(* ------------------------------ runPlan ------------------------------- *)
inputVars == <<variant, plan, opts, tstate, keyIn, keyOut, peer>>
mapVars == <<items, results>>

\* keys a run may find already stored in a shared cache: the first entry's,
\* and the first element's of a map
FirstKey == CacheKeyOf(<<plan.steps[1].id, 0>>, plan.steps[1], BaseInput)
ElemKey(m) == CacheKeyOf(<<m, 1>>, LeafOf(<<m, 1>>), ItemAt(1))
WarmKeys ==
  ({FirstKey} \cup {ElemKey(m) : m \in {i \in MapIds : HasStep(i) /\ variant = "budget"}})
    \ {NoKey}

NoKeyIn == [id |-> "", v |-> Undef, w |-> Undef]
NoEvents == [plan |-> 0, done |-> 0, doneOutputs |-> <<>>]

\* the state runPlan sets up before its first step, for given arguments
InitEngine ==
  /\ opts.budget => variant = "budget"
  /\ pc = "init"
  /\ pos = 1
  /\ seq = <<>>
  /\ out = [i \in Ids |-> Undef]
  /\ outputs = <<>>
  /\ err = NoErr
  /\ ex = [u \in Units |-> Ex0]
  /\ pools = [p \in {"sem", "map"} |-> pool(maxConc)]
  /\ rej = [p \in {"sem", "map"} |-> NoErr]
  /\ items = <<>>
  /\ results = <<>>
  /\ cache \in {{}} \cup {{[key |-> k, val |-> CachedValue]} : k \in WarmKeys}
  /\ over = FALSE
  /\ tstate = [t \in PoolTasks |-> "new"]
  /\ events = NoEvents
  /\ peer = Ex0

InitRun ==
  /\ variant \in {"core", "budget"}
  /\ \E n \in 0..MaxRetry : plan \in Plans(n)
  /\ opts \in [maxConcurrency : {Absent} \cup (1..MaxConc), cache : BOOLEAN, budget : BOOLEAN,
                stepTimeoutMs : {Absent}, defaultStepTTLSeconds : {Absent}]
  /\ InitEngine

Init ==
  /\ InitRun
  /\ keyIn = NoKeyIn
  /\ keyOut = <<>>

\* onEvent({ type: "plan", plan })
EmitPlan(e) == [e EXCEPT !.plan = @ + 1]
StartPlan ==
  /\ pc = "init"
  /\ pc' = "ready"
  /\ events' = EmitPlan(events)
  /\ UNCHANGED <<inputVars, mapVars, pos, seq, out, outputs, err, ex, pools, rej, cache, over>>

Entry == plan.steps[pos]
AtEntry == pc = "ready" /\ pos <= NSteps
\* part_007 370: checkBudget() at the top of every iteration
BudgetOk == ~(variant = "budget" /\ over)
LeafKinds == {"model", "tool"}

DispatchOverBudget ==
  /\ AtEntry /\ ~BudgetOk
  /\ pc' = "raised"
  /\ err' = "budget"
  /\ UNCHANGED <<inputVars, events, mapVars, pos, seq, out, outputs, ex, pools, rej, cache, over>>

\* model / tool entry: const r = await execWithRetry(s)
DispatchLeaf ==
  /\ AtEntry /\ BudgetOk
  /\ Entry.kind \in LeafKinds
  /\ \E o2 \in OverNext :
       LET u == <<Entry.id, 0>>
       IN /\ ex' = [ex EXCEPT ![u] =
                      StartAttempt(Fresh(@, "main"), u, Entry, readInputs(Entry), over, o2)]
          /\ over' = o2
  /\ pc' = "await"
  /\ UNCHANGED <<inputVars, events, mapVars, pos, seq, out, outputs, err, pools, rej, cache>>

\* parallel children: missing or parallel (both), branch or map (planner.ts),
\* branch (part_007) make the callback of children.map throw
BadChild(cid) ==
  \/ ~HasStep(cid)
  \/ StepOf(cid).kind \in {"parallel", "branch"}
  \/ variant = "core" /\ StepOf(cid).kind = "map"
\* the children handed to sem.run before the first invalid one stops the map
GoodPrefix(cs) ==
  IF \E i \in 1..Len(cs) : BadChild(cs[i])
  THEN SubSeq(cs, 1, (CHOOSE i \in 1..Len(cs) :
                        BadChild(cs[i]) /\ \A j \in 1..(i - 1) : ~BadChild(cs[j])) - 1)
  ELSE cs
AsUnits(cs) == [i \in 1..Len(cs) |-> <<cs[i], 0>>]

\* the pool a parallel group runs its children in
GroupPool(s) == pools["sem"]

DispatchParallel ==
  /\ AtEntry /\ BudgetOk
  /\ Entry.kind = "parallel"
  /\ \E o2 \in OverNext :
       LET good == GoodPrefix(Entry.children)
           sub == Submit(AsUnits(good), ex, GroupPool(Entry), "sem", items, over, o2)
       IN /\ ex' = sub.ex
          /\ pools' = [pools EXCEPT !["sem"] = sub.pool]
          /\ over' = o2
          /\ IF good = Entry.children
             THEN pc' = "awaitAll" /\ err' = err
             ELSE pc' = "raised" /\ err' = "invalid"
  /\ rej' = [rej EXCEPT !["sem"] = NoErr]
  /\ UNCHANGED <<inputVars, events, mapVars, pos, seq, out, outputs, cache>>

DispatchBranch ==
  /\ AtEntry /\ BudgetOk
  /\ Entry.kind = "branch"
  /\ seq' = BranchSeq(Entry)
  /\ pc' = "branch"
  /\ UNCHANGED <<inputVars, events, mapVars, pos, out, outputs, err, ex, pools, rej, cache, over>>

\* the next id of the selected sequence, or the end of the branch entry
BranchNext ==
  /\ pc = "branch"
  /\ IF seq = <<>>
     THEN /\ pos' = pos + 1
          /\ pc' = "ready"
          /\ UNCHANGED <<ex, err, over>>
     ELSE LET id == Head(seq)
              u == <<id, 0>>
          IN IF ~HasStep(id) \/ StepOf(id).kind \in {"parallel", "branch"}
             THEN pc' = "raised" /\ err' = "invalid" /\ UNCHANGED <<ex, pos, over>>
             ELSE /\ \E o2 \in OverNext :
                       /\ ex' = [ex EXCEPT ![u] =
                                   IF StepOf(id).kind = "map" /\ variant = "budget"
                                   THEN [Fresh(@, "main") EXCEPT !.st = "mapstart"]
                                   ELSE StartAttempt(Fresh(@, "main"), u, StepOf(id),
                                                     readInputs(StepOf(id)), over, o2)]
                       /\ over' = o2
                  /\ pc' = "await"
                  /\ UNCHANGED <<pos, err>>
  /\ UNCHANGED <<inputVars, events, mapVars, seq, out, outputs, pools, rej, cache>>

\* map entry: the fan-out itself is MapStart
DispatchMap ==
  /\ AtEntry /\ BudgetOk
  /\ Entry.kind = "map"
  /\ ex' = [ex EXCEPT ![<<Entry.id, 0>>] = [Fresh(@, "main") EXCEPT !.st = "mapstart"]]
  /\ pc' = "await"
  /\ UNCHANGED <<inputVars, events, mapVars, pos, seq, out, outputs, err, pools, rej, cache, over>>

\* the unit the top-level loop awaits
Cur == IF Entry.kind = "branch" THEN <<Head(seq), 0>> ELSE <<Entry.id, 0>>

\* an awaited promise resumes its awaiter normally only when it is fulfilled
Fulfilled_Swallow(r) == TRUE
Fulfilled(r) == r.st = "done"

\* await execWithRetry(s) settled: out.set(s.id, r) and go on, or rethrow
Join ==
  /\ pc = "await"
  /\ ex[Cur].st \in Terminal
  /\ IF Fulfilled(ex[Cur])
     THEN /\ out' = [out EXCEPT ![Cur[1]] = ex[Cur].ret]
          /\ IF Entry.kind = "branch"
             THEN seq' = Tail(seq) /\ pc' = "branch" /\ pos' = pos
             ELSE seq' = seq /\ pc' = "ready" /\ pos' = pos + 1
          /\ err' = err
     ELSE /\ pc' = "raised"
          /\ err' = ex[Cur].err
          /\ UNCHANGED <<out, seq, pos>>
  /\ UNCHANGED <<inputVars, events, mapVars, outputs, ex, pools, rej, cache, over>>

\* Promise.all: fulfilled when every promise is, rejected with the first rejection
AllSettledOk_Any(us) == \E i \in 1..Len(us) : ex[us[i]].st = "done" /\ ~ex[us[i]].slot
AllSettledOk(us) == \A i \in 1..Len(us) : ex[us[i]].st = "done" /\ ~ex[us[i]].slot

Rejected_AllSettled(p) ==
  /\ rej[p] # NoErr
  /\ \A u \in Units : ex[u].via = p => ~(ex[u].st \in InFlightStates \/ ex[u].slot)
\* Promise.all is rejected as soon as one of its promises is
Rejected(p) == rej[p] # NoErr

\* await Promise.all(proms) of a parallel entry
JoinAll ==
  /\ pc = "awaitAll"
  /\ \/ /\ Rejected("sem")
        /\ pc' = "raised"
        /\ err' = rej["sem"]
        /\ pos' = pos
     \/ /\ rej["sem"] = NoErr
        /\ AllSettledOk(AsUnits(Entry.children))
        /\ pc' = "ready"
        /\ pos' = pos + 1
        /\ err' = err
  /\ UNCHANGED <<inputVars, events, mapVars, seq, out, outputs, ex, pools, rej, cache, over>>

\* for (const id of plan.outputs) outputs[id] = out.get(id); emit done; return
Project_All(ids) == [id \in Ids |-> OutGet(id)]
Project(ids) == [id \in {ids[i] : i \in 1..Len(ids)} |-> OutGet(id)]
EmitDone_Map(e, o) == [e EXCEPT !.done = @ + 1, !.doneOutputs = [id \in Ids |-> OutGet(id)]]
\* onEvent({ type: "done", outputs })
EmitDone(e, o) == [e EXCEPT !.done = @ + 1, !.doneOutputs = o]
Finish ==
  /\ pc = "ready" /\ pos > NSteps
  /\ outputs' = Project(plan.outputs)
  /\ events' = EmitDone(events, Project(plan.outputs))
  /\ pc' = "returned"
  /\ UNCHANGED <<inputVars, mapVars, pos, seq, out, err, ex, pools, rej, cache, over>>

(* --------------------------- leaf executions -------------------------- *)
mainVars == <<pc, pos, seq, outputs, err>>

\* cache.get(cacheKey) settled
CacheGetReturn(u) ==
  /\ ex[u].st = "cacheget"
  /\ \E o2 \in OverNext :
       /\ ex' = [ex EXCEPT ![u] = OnCacheGet(@, LeafOf(u), CacheGet(@.key), o2)]
       /\ over' = o2
  /\ UNCHANGED <<inputVars, events, mapVars, mainVars, out, pools, rej, cache>>

\* the agent / tool call returned a value
CallOk(u) ==
  /\ ex[u].st = "calling"
  /\ \E v \in Returns(u, ex[u].arg) :
       ex' = [ex EXCEPT ![u] =
                IF IsBare(u) THEN [@ EXCEPT !.st = "done", !.ret = v]
                ELSE OnResult(@, LeafOf(u), v, validate(LeafOf(u), v))]
  /\ UNCHANGED <<inputVars, events, mapVars, mainVars, out, pools, rej, cache, over>>

\* the agent / tool call threw
CallFail(u) ==
  /\ ex[u].st = "calling"
  /\ ex' = [ex EXCEPT ![u] =
              IF IsBare(u) THEN Fatal([@ EXCEPT !.nfail = @ + 1], "call")
              ELSE OnThrow(@, LeafOf(u))]
  /\ UNCHANGED <<inputVars, events, mapVars, mainVars, out, pools, rej, cache, over>>

\* cache.set(cacheKey, result, ttl) settled: step:done, return result
CacheSetReturn(u) ==
  /\ ex[u].st = "cacheset"
  /\ cache' = CacheSet(ex[u].key, ex[u].ret)
  /\ ex' = [ex EXCEPT ![u] = Done(@, @.ret)]
  /\ UNCHANGED <<inputVars, events, mapVars, mainVars, out, pools, rej, over>>

\* the backoff sleep ended: next round of the while(true) loop
BackoffDone(u) ==
  /\ ex[u].st = "backoff"
  /\ \E o2 \in OverNext :
       /\ ex' = [ex EXCEPT ![u] = StartAttempt(@, u, LeafOf(u), InputOf(u, items), over, o2)]
       /\ over' = o2
  /\ UNCHANGED <<inputVars, events, mapVars, mainVars, out, pools, rej, cache>>

(* ------------------------------ pool tasks ---------------------------- *)
\* a woken waiter resumes in run(): active++, then the task function starts
Admit(u) ==
  /\ ex[u].st = "woken"
  /\ \E o2 \in OverNext :
       /\ ex' = [ex EXCEPT ![u] = TaskBody(Fresh(@, @.via), u, items, over, o2)]
       /\ over' = o2
  /\ pools' = [pools EXCEPT ![ex[u].via] = PoolAdmit(@)]
  /\ UNCHANGED <<inputVars, events, mapVars, mainVars, out, rej, cache>>

\* the task function settled: store its result, then the finally block of run()
TaskEnd(u) ==
  /\ ex[u].st \in Terminal
  /\ ex[u].slot
  /\ LET p == ex[u].via
         w == PoolWoken(pools[p])
         ok == ex[u].st = "done"
     IN /\ pools' = [pools EXCEPT ![p] = PoolRelease(@)]
        /\ ex' = [v \in Units |->
                    IF v = u THEN [ex[v] EXCEPT !.slot = FALSE]
                    ELSE IF v = w THEN [ex[v] EXCEPT !.st = "woken"]
                    ELSE ex[v]]
        /\ out' = IF ok /\ p = "sem" THEN [out EXCEPT ![u[1]] = ex[u].ret] ELSE out
        /\ results' = IF ok /\ p = "map" THEN SetAt(results, u[2], ex[u].ret) ELSE results
        /\ rej' = IF ~ok /\ rej[p] = NoErr THEN [rej EXCEPT ![p] = ex[u].err] ELSE rej
  /\ UNCHANGED <<inputVars, events, mainVars, items, cache, over>>

(* -------------------------------- map --------------------------------- *)
\* the pool a map step runs its elements in
MapLimit_RunLevel(ms) == maxConc
MapLimit(ms) ==
  LET k == IF ms.maxConcurrency = Absent THEN maxConc ELSE ms.maxConcurrency
  IN IF k > 1 THEN k ELSE 1
ElemUnits(id, n) == [i \in 1..n |-> <<id, i>>]

\* planner.ts 315-326 / part_007 258-267: read the array, fan out over a fresh pool
MapStart(u) ==
  /\ ex[u].st = "mapstart"
  /\ LET ms == StepOf(u[1])
         src == OutGet(ms.itemsFrom)
     IN IF ~IsArray(src) /\ variant = "core"
        THEN /\ ex' = [ex EXCEPT ![u] = Fatal(@, "invalid")]
             /\ UNCHANGED <<items, results, pools, rej, over>>
        ELSE \E o2 \in OverNext :
               LET list == IF IsArray(src) THEN src.a ELSE <<>>
                   sub == Submit(ElemUnits(u[1], Len(list)),
                                 [ex EXCEPT ![u] = [@ EXCEPT !.st = "mapwait"]],
                                 pool(MapLimit(ms)), "map", list, over, o2)
               IN /\ items' = list
                  /\ results' = <<>>
                  /\ ex' = sub.ex
                  /\ pools' = [pools EXCEPT !["map"] = sub.pool]
                  /\ rej' = [rej EXCEPT !["map"] = NoErr]
                  /\ over' = o2
  /\ UNCHANGED <<inputVars, events, mainVars, out, cache>>

\* await Promise.all(...) of the map settled: the results array, or the first rejection
MapJoin(u) ==
  /\ ex[u].st = "mapwait"
  /\ \/ /\ Rejected("map")
        /\ ex' = [ex EXCEPT ![u] = Fatal(@, rej["map"])]
     \/ /\ rej["map"] = NoErr
        /\ AllSettledOk(ElemUnits(u[1], Len(items)))
        /\ ex' = [ex EXCEPT ![u] = [@ EXCEPT !.st = "done", !.ret = Arr(results)]]
  /\ UNCHANGED <<inputVars, events, mapVars, mainVars, out, pools, rej, cache, over>>

(* ------------------------------- clock -------------------------------- *)
\* Date.now() - planStart passes budget.maxLatencyMs
Tick ==
  /\ HasBudget
  /\ ~over
  /\ pc \notin {"returned", "raised"}
  /\ over' = TRUE
  /\ UNCHANGED <<inputVars, events, mapVars, mainVars, out, ex, pools, rej, cache>>

Next ==
  \/ StartPlan
  \/ DispatchOverBudget
  \/ DispatchLeaf
  \/ DispatchParallel
  \/ DispatchBranch
  \/ BranchNext
  \/ DispatchMap
  \/ Join
  \/ JoinAll
  \/ Finish
  \/ \E u \in Units : CacheGetReturn(u)
  \/ \E u \in Units : CallOk(u)
  \/ \E u \in Units : CallFail(u)
  \/ \E u \in Units : CacheSetReturn(u)
  \/ \E u \in Units : BackoffDone(u)
  \/ \E u \in Units : Admit(u)
  \/ \E u \in Units : TaskEnd(u)
  \/ \E u \in Units : MapStart(u)
  \/ \E u \in Units : MapJoin(u)
  \/ Tick

Spec == Init /\ [][Next]_vars

TypeOK ==
  /\ pc \in {"init", "ready", "branch", "await", "awaitAll", "returned", "raised"}
  /\ \A u \in Units : ex[u].st \in {"idle", "queued", "woken"} \cup InFlightStates \cup Terminal

(* ------------------- the pool as a stand-alone object ------------------ *)
(* pool(limit).run(fn) called by an arbitrary client: a call may arrive at *)
(* any time, also between a release and the resumption of the woken waiter.*)
engineVars == <<variant, plan, opts, pc, pos, seq, out, outputs, err, ex, rej,
                items, results, cache, over, keyIn, keyOut, events, peer>>

InitPool ==
  /\ Init
  /\ variant = "core"
  /\ plan = SeqPlan(0, "")
  /\ ~opts.cache

\* run(fn) is called: wait in the queue, or active++ and start fn
PoolRun(t) ==
  /\ tstate[t] = "new"
  /\ IF PoolMustWait(pools["sem"])
     THEN /\ pools' = [pools EXCEPT !["sem"] = PoolEnqueue(@, t)]
          /\ tstate' = [tstate EXCEPT ![t] = "queued"]
     ELSE /\ pools' = [pools EXCEPT !["sem"] = PoolAdmit(@)]
          /\ tstate' = [tstate EXCEPT ![t] = "running"]
  /\ UNCHANGED engineVars

\* the waiter woken by a release resumes: active++ and start fn
PoolResume(t) ==
  /\ tstate[t] = "woken"
  /\ pools' = [pools EXCEPT !["sem"] = PoolAdmit(@)]
  /\ tstate' = [tstate EXCEPT ![t] = "running"]
  /\ UNCHANGED engineVars

\* fn settled (fulfilled or rejected): finally { active--; queue.shift()?.() }
PoolSettle(t) ==
  /\ tstate[t] = "running"
  /\ \E outcome \in {"fulfilled", "rejected"} :
       LET w == PoolWoken(pools["sem"])
       IN tstate' = [v \in PoolTasks |->
                       IF v = t THEN outcome ELSE IF v = w THEN "woken" ELSE tstate[v]]
  /\ pools' = [pools EXCEPT !["sem"] = PoolRelease(@)]
  /\ UNCHANGED engineVars

NextPool ==
  \/ \E t \in PoolTasks : PoolRun(t)
  \/ \E t \in PoolTasks : PoolResume(t)
  \/ \E t \in PoolTasks : PoolSettle(t)

SpecPool == InitPool /\ [][NextPool]_vars

(* ------------------------ a cache that may fail ----------------------- *)
(* Runs of plans of leaf steps with a StepCache whose get and set may       *)
(* reject. Both awaits stand inside execWithRetry's try block, so the       *)
(* rejection reaches its catch like any other error of the attempt.         *)
InitFaults ==
  /\ Init
  /\ opts.cache
  /\ \E n \in 0..MaxRetry : plan \in {SeqPlan(n, ""), SeqPlan(n, "auto")}

\* await opts.cache.get(cacheKey) rejected
CacheGetThrow(u) ==
  /\ ex[u].st = "cacheget"
  /\ ex' = [ex EXCEPT ![u] = Catch(@, LeafOf(u), "cacheget")]
  /\ UNCHANGED <<inputVars, events, mapVars, mainVars, out, pools, rej, cache, over>>

\* await opts.cache.set(cacheKey, result, ttl) rejected: nothing is stored
CacheSetThrow(u) ==
  /\ ex[u].st = "cacheset"
  /\ ex' = [ex EXCEPT ![u] = Catch(@, LeafOf(u), "cacheset")]
  /\ UNCHANGED <<inputVars, events, mapVars, mainVars, out, pools, rej, cache, over>>

NextFaults ==
  \/ StartPlan
  \/ DispatchOverBudget
  \/ DispatchLeaf
  \/ Join
  \/ Finish
  \/ \E u \in Units : CacheGetReturn(u)
  \/ \E u \in Units : CallOk(u)
  \/ \E u \in Units : CallFail(u)
  \/ \E u \in Units : CacheSetReturn(u)
  \/ \E u \in Units : BackoffDone(u)
  \/ Tick
  \/ \E u \in Units : CacheGetThrow(u)
  \/ \E u \in Units : CacheSetThrow(u)

SpecFaults == InitFaults /\ [][NextFaults]_vars

(* --------------------- cache signatures (autoCacheKey) ----------------- *)
(* A JSON value: a number, an array, or an object. An object is the         *)
(* sequence of its properties in insertion order, which is the order        *)
(* Object.keys enumerates non-index string keys in.                         *)
Num(n) == [t |-> "num", n |-> n, kv |-> <<>>]
Prop(key, val) == [key |-> key, val |-> val]
Obj(kv) == [t |-> "obj", n |-> 0, kv |-> kv]
List(xs) == [t |-> "arr", n |-> 0, kv |-> [i \in 1..Len(xs) |-> Prop("", xs[i])]]

\* Array.prototype.sort's default order on the property names in use
KeyOrder == <<"a", "agent", "b", "id", "input", "k">>
KeyRank(key) == CHOOSE i \in 1..Len(KeyOrder) : KeyOrder[i] = key
DropAt(q, i) == [j \in 1..(Len(q) - 1) |-> IF j < i THEN q[j] ELSE q[j + 1]]

SortKeys_Unsorted(kv) == kv
\* Object.keys(value).sort().reduce(...): the properties re-inserted in key order
RECURSIVE SortKeys(_)
SortKeys(kv) ==
  IF kv = <<>> THEN <<>>
  ELSE LET i == CHOOSE i \in 1..Len(kv) :
                  \A j \in 1..Len(kv) : KeyRank(kv[i].key) <= KeyRank(kv[j].key)
       IN <<kv[i]>> \o SortKeys(DropAt(kv, i))

\* JSON.stringify(v, replacer): the replacer is applied to every value on the
\* way down, so the properties of nested objects are re-inserted in key order
\* too; arrays keep the order of their elements. The text is a token sequence.
RECURSIVE stableStringify(_)
RECURSIVE JoinProps(_, _)
JoinProps(kv, named) ==
  IF kv = <<>> THEN <<>>
  ELSE (IF named THEN <<kv[1].key, ":">> ELSE <<>>)
         \o stableStringify(kv[1].val)
         \o (IF Len(kv) > 1 THEN <<",">> ELSE <<>>)
         \o JoinProps(Tail(kv), named)
stableStringify(v) ==
  CASE v.t = "num" -> <<ToString(v.n)>>
    [] v.t = "str" -> <<v.kv[1].key>>
    [] v.t = "arr" -> <<"[">> \o JoinProps(v.kv, FALSE) \o <<"]">>
    [] v.t = "obj" -> <<"{">> \o JoinProps(SortKeys(v.kv), TRUE) \o <<"}">>

Str(x) == [t |-> "str", n |-> 0, kv |-> <<Prop(x, Num(0))>>]
\* autoCacheKey for a model step: `step:${s.id}:${stableStringify(sig)}`
autoCacheKeyText(id, agent, input) ==
  <<"step:", id, ":">>
    \o stableStringify(Obj(<<Prop("k", Str("model")), Prop("id", Str(id)),
                              Prop("agent", Str(agent)), Prop("input", input)>>))

(* The inputs keys are taken of: numbers, and up to MaxDepth levels of       *)
(* objects { a: <nested>, b: <number> } with the two properties inserted in  *)
(* either order, or one-element arrays of a nested value.                    *)
Scalars == {Num(1), Num(2)}
RECURSIVE Inputs(_)
Inputs(d) ==
  IF d = 0 THEN Scalars
  ELSE LET sub == Inputs(d - 1)
       IN Scalars
            \cup {Obj(<<Prop("a", x), Prop("b", y)>>) : x \in sub, y \in Scalars}
            \cup {Obj(<<Prop("b", y), Prop("a", x)>>) : x \in sub, y \in Scalars}
            \cup {List(<<x>>) : x \in sub}

InitKeys ==
  /\ InitRun
  /\ variant = "core"
  /\ plan = SeqPlan(0, "auto")
  /\ opts = [maxConcurrency |-> Absent, cache |-> TRUE, budget |-> FALSE,
             stepTimeoutMs |-> Absent, defaultStepTTLSeconds |-> Absent]
  /\ cache = {}
  /\ keyIn \in [id : {"s1"}, v : Inputs(MaxDepth), w : Inputs(MaxDepth)]
  /\ keyOut = <<>>

\* the key of the step for each of the two inputs
AutoKeys ==
  /\ keyOut = <<>>
  /\ keyOut' = <<autoCacheKeyText(keyIn.id, "agent", keyIn.v),
                 autoCacheKeyText(keyIn.id, "agent", keyIn.w)>>
  /\ UNCHANGED <<variant, plan, opts, pc, pos, seq, out, outputs, err, ex, pools, rej,
                 items, results, cache, over, tstate, keyIn, events, peer>>

NextKeys == AutoKeys

SpecKeys == InitKeys /\ [][NextKeys]_vars

(* ------------------- two runs that share one cache --------------------- *)
(* runPlan is invoked a second time, with the same plan, context and       *)
(* StepCache, while the first invocation is under way. Of the second        *)
(* invocation the execution of the plan's first step is followed: it runs   *)
(* the same execWithRetry, on the same cache object.                        *)
InitShared ==
  /\ Init
  /\ opts.cache /\ ~opts.budget
  /\ opts.maxConcurrency = Absent
  /\ cache = {}
  /\ \E n \in 0..MaxRetry : plan = SeqPlan(n, "auto")

PeerUnit == <<plan.steps[1].id, 0>>
PeerStep == plan.steps[1]
runVars == <<variant, plan, opts, tstate, keyIn, keyOut, events, mapVars, mainVars,
             out, ex, pools, rej, over>>

\* the second invocation reaches execWithRetry(s) for its first step
PeerStart ==
  /\ peer.st = "idle"
  /\ peer.runs = 0
  /\ peer' = StartAttempt([Ex0 EXCEPT !.runs = 1, !.owner = 1, !.via = "main"],
                          PeerUnit, PeerStep, BaseInput, FALSE, FALSE)
  /\ UNCHANGED <<runVars, cache>>

PeerCacheGetReturn ==
  /\ peer.st = "cacheget"
  /\ peer' = OnCacheGet(peer, PeerStep, CacheGet(peer.key), FALSE)
  /\ UNCHANGED <<runVars, cache>>

PeerCallOk ==
  /\ peer.st = "calling"
  /\ \E v \in Returns(PeerUnit, peer.arg) :
       peer' = OnResult(peer, PeerStep, v, validate(PeerStep, v))
  /\ UNCHANGED <<runVars, cache>>

PeerCallFail ==
  /\ peer.st = "calling"
  /\ peer' = OnThrow(peer, PeerStep)
  /\ UNCHANGED <<runVars, cache>>

PeerCacheSetReturn ==
  /\ peer.st = "cacheset"
  /\ cache' = CacheSet(peer.key, peer.ret)
  /\ peer' = Done(peer, peer.ret)
  /\ UNCHANGED runVars

PeerBackoffDone ==
  /\ peer.st = "backoff"
  /\ peer' = StartAttempt(peer, PeerUnit, PeerStep, BaseInput, FALSE, FALSE)
  /\ UNCHANGED <<runVars, cache>>

NextShared ==
  \/ StartPlan
  \/ DispatchLeaf
  \/ Join
  \/ Finish
  \/ \E u \in Units : CacheGetReturn(u)
  \/ \E u \in Units : CallOk(u)
  \/ \E u \in Units : CallFail(u)
  \/ \E u \in Units : CacheSetReturn(u)
  \/ \E u \in Units : BackoffDone(u)
  \/ PeerStart
  \/ PeerCacheGetReturn
  \/ PeerCallOk
  \/ PeerCallFail
  \/ PeerCacheSetReturn
  \/ PeerBackoffDone

SpecShared == InitShared /\ [][NextShared]_vars

(* ------------------ runs in a row that share one cache ----------------- *)
(* runPlan is invoked again, with the same plan and StepCache, after the    *)
(* previous invocation returned. The plan's tool step takes its arguments   *)
(* from the output of x, which differs from run to run.                     *)
ArgsPlan(n) ==
  [steps |-> << Model("x", 0, <<>>),
                Cached([AsTool(Model("s2", n, <<>>)) EXCEPT !.args = [var |-> "x"]], "auto") >>,
   outputs |-> <<"s2">>]

InitRerun ==
  /\ variant \in {"core", "budget"}
  /\ \E n \in 0..MaxRetry : plan = ArgsPlan(n)
  /\ opts = [maxConcurrency |-> Absent, cache |-> TRUE, budget |-> FALSE,
             stepTimeoutMs |-> Absent, defaultStepTTLSeconds |-> Absent]
  /\ InitEngine
  /\ cache = {}
  /\ keyIn = NoKeyIn
  /\ keyOut = <<>>

\* the next invocation: fresh local state, same cache and event sink; peer
\* keeps the tool step's execution of the invocation that returned
RunAgain ==
  /\ pc = "returned"
  /\ events.plan < MaxRuns
  /\ peer' = ex[<<"s2", 0>>]
  /\ pc' = "init"
  /\ pos' = 1
  /\ out' = [i \in Ids |-> Undef]
  /\ outputs' = <<>>
  /\ ex' = [u \in Units |-> Ex0]
  /\ UNCHANGED <<variant, plan, opts, tstate, keyIn, keyOut, events, mapVars, seq, err,
                 pools, rej, cache, over>>

NextRerun ==
  \/ StartPlan
  \/ DispatchLeaf
  \/ Join
  \/ Finish
  \/ \E u \in Units : CacheGetReturn(u)
  \/ \E u \in Units : CallOk(u)
  \/ \E u \in Units : CallFail(u)
  \/ \E u \in Units : CacheSetReturn(u)
  \/ \E u \in Units : BackoffDone(u)
  \/ RunAgain

SpecRerun == InitRerun /\ [][NextRerun]_vars

(* ------------------- guards, timeouts and the cache TTL ---------------- *)
(* Runs of a single leaf step, a model or a tool step, under every          *)
(* combination of retry policy, backoff, schema, timeout, cache key and     *)
(* run options.                                                             *)
GuardPlans(n) ==
  {[steps |-> << Guarded(Cached(st, key), b, sch, t) >>, outputs |-> <<"x">>] :
     st \in {Model("x", n, <<>>), AsTool(Model("x", n, <<>>))},
     key \in {"", "auto"}, b \in {Absent, 100}, sch \in BOOLEAN, t \in {Absent, 50}}

InitGuard ==
  /\ variant \in {"core", "budget"}
  /\ \E n \in 0..MaxRetry : plan \in GuardPlans(n)
  /\ opts \in [maxConcurrency : {Absent}, cache : BOOLEAN, budget : {FALSE},
                stepTimeoutMs : {Absent, 70}, defaultStepTTLSeconds : {Absent, -5, 60}]
  /\ InitEngine
  /\ keyIn = NoKeyIn
  /\ keyOut = <<>>

\* planner.ts 223: s.timeoutMs && s.timeoutMs > 0
\* part_007 188, 220: (s.timeoutMs ?? opts.stepTimeoutMs ?? 0) > 0
TimeoutOf(s) ==
  LET t == IF s.timeoutMs # Absent THEN s.timeoutMs
           ELSE IF variant = "budget" /\ opts.stepTimeoutMs # Absent THEN opts.stepTimeoutMs
           ELSE 0
  IN IF t > 0 THEN t ELSE 0
\* the timer's callback: part_007 aborts the controller whose signal a tool was
\* given (planner.ts has no controller), then the race rejects. The call that
\* lost the race is not cancelled: it goes on unless the tool stops on abort.
OnTimeout(r, s, stopped) ==
  Catch([r EXCEPT !.ntimeout = @ + 1,
                  !.aborts = IF variant = "budget" /\ s.kind = "tool" THEN @ + 1 ELSE @,
                  !.abandoned = IF stopped THEN @ ELSE @ + 1],
        s, "timeout")
\* a tool that was handed the signal may or may not stop when it is aborted
MayStop(s) == IF variant = "budget" /\ s.kind = "tool" THEN BOOLEAN ELSE {FALSE}
\* the timer of Promise.race fires before the call settled
Timeout(u) ==
  /\ ex[u].st = "calling"
  /\ ~IsBare(u)
  /\ TimeoutOf(LeafOf(u)) > 0
  /\ \E stopped \in MayStop(LeafOf(u)) :
       ex' = [ex EXCEPT ![u] = OnTimeout(@, LeafOf(u), stopped)]
  /\ UNCHANGED <<inputVars, events, mapVars, mainVars, out, pools, rej, cache, over>>

\* a call that lost the race settles; nobody awaits its result
AbandonedSettles(u) ==
  /\ ex[u].abandoned > 0
  /\ ex' = [ex EXCEPT ![u] = [@ EXCEPT !.abandoned = @ - 1]]
  /\ UNCHANGED <<inputVars, events, mapVars, mainVars, out, pools, rej, cache, over>>

NextGuard ==
  \/ StartPlan
  \/ DispatchLeaf
  \/ Join
  \/ Finish
  \/ \E u \in Units : CacheGetReturn(u)
  \/ \E u \in Units : CallOk(u)
  \/ \E u \in Units : CallFail(u)
  \/ \E u \in Units : CacheSetReturn(u)
  \/ \E u \in Units : BackoffDone(u)
  \/ \E u \in Units : Timeout(u)
  \/ \E u \in Units : AbandonedSettles(u)

SpecGuard == InitGuard /\ [][NextGuard]_vars

(* ---------------- placeholders in tool arguments (deepResolve) -------- *)
(* deepResolve, refValue and readPath as functions of the tool step's      *)
(* declared args, its input, the outputs map and the current map item.     *)
(* A string is the sequence of its dot-separated segments; n = 1 marks a   *)
(* string of the form `${...}` around them.                                *)
Missing == [t |-> "undef", n |-> 0, kv |-> <<>>]
PathStr(path) == [t |-> "str", n |-> 0, kv |-> [i \in 1..Len(path) |-> Prop(path[i], Num(0))]]
Dollar(path) == [PathStr(path) EXCEPT !.n = 1]
VarObj(path) == Obj(<<Prop("var", PathStr(path))>>)
PathOf(v) == [i \in 1..Len(v.kv) |-> v.kv[i].key]

\* cur[p]: a property of an object, undefined on a number or a string
Member(cur, p) ==
  IF cur.t = "obj" /\ \E i \in 1..Len(cur.kv) : cur.kv[i].key = p
  THEN cur.kv[CHOOSE i \in 1..Len(cur.kv) : cur.kv[i].key = p].val
  ELSE Missing
RECURSIVE readPath(_, _)
readPath(root, parts) ==
  IF parts = <<>> THEN root
  ELSE IF root = Missing THEN Missing
  ELSE readPath(Member(root, parts[1]), Tail(parts))
refValue(store, ref) ==
  LET v == IF ref[1] \in DOMAIN store THEN store[ref[1]] ELSE Missing
  IN IF Len(ref) = 1 THEN v ELSE readPath(v, Tail(ref))

\* ref.replace(/\bresult\b/g, "results").replace(/\blink\b/g, "url") and back
Alt(ref) ==
  [i \in 1..Len(ref) |-> IF ref[i] = "result" THEN "results"
                          ELSE IF ref[i] = "link" THEN "url" ELSE ref[i]]
Alt2(ref) ==
  [i \in 1..Len(ref) |-> IF ref[i] = "results" THEN "result"
                          ELSE IF ref[i] = "url" THEN "link" ELSE ref[i]]
\* the lookup of a `${ref}` string: the path itself, then its synonyms
fromSteps(store, ref) ==
  IF refValue(store, ref) # Missing THEN refValue(store, ref)
  ELSE IF refValue(store, Alt(ref)) # Missing THEN refValue(store, Alt(ref))
  ELSE refValue(store, Alt2(ref))
\* ref.startsWith("item") && item !== undefined
ItemRef(ref, item) == ref[1] \in {"item", "items"} /\ item # Missing
ItemRoot(item) == Obj(<<Prop("item", item)>>)

RECURSIVE deepResolveVal(_, _, _)
deepResolveVal(val, store, item) ==
  IF val.t = "str" THEN
    IF val.n = 1 THEN
      IF ItemRef(PathOf(val), item) THEN readPath(ItemRoot(item), PathOf(val))
      ELSE fromSteps(store, PathOf(val))
    ELSE val
  ELSE IF val.t = "obj" /\ Member(val, "var").t = "str" THEN
    LET ref == Member(val, "var")
    IN IF ref.n = 1 THEN Missing
       ELSE IF ItemRef(PathOf(ref), item) THEN readPath(ItemRoot(item), PathOf(ref))
       ELSE refValue(store, PathOf(ref))
  ELSE IF val.t \in {"obj", "arr"} THEN
    [val EXCEPT !.kv = [i \in 1..Len(val.kv) |->
                          Prop(val.kv[i].key, deepResolveVal(val.kv[i].val, store, item))]]
  ELSE val

\* what the tool is called with: planner.ts resolves s.args ?? input, part_007
\* passes s.args ?? input as it is
toolArgs(v, args, input, store, item) ==
  LET rawArgs == IF args = Missing THEN input ELSE args
  IN IF v = "core" THEN deepResolveVal(rawArgs, store, item) ELSE rawArgs

RefFields == {"result", "results", "url", "link"}
RefPaths ==
  {<<h>> : h \in {"x", "z", "item", "items"}}
    \cup {<<h, f>> : h \in {"x", "z", "item", "items"}, f \in RefFields}
\* values an upstream step x may have produced: numbers, objects, and data
\* that itself holds a placeholder
StoreVals ==
  {Missing} \cup Scalars
    \cup {Obj(<<Prop(f, a)>>) : f \in {"result", "results", "url"}, a \in Scalars}
    \cup {Obj(<<Prop("result", a), Prop("results", b)>>) : a \in Scalars, b \in Scalars}
    \cup {Obj(<<Prop("link", a), Prop("url", b)>>) : a \in Scalars, b \in Scalars}
    \cup {Dollar(<<"items">>), VarObj(<<"items">>), Obj(<<Prop("a", Dollar(<<"items">>))>>)}
ArgVals ==
  {Missing}
    \cup {Dollar(p) : p \in RefPaths} \cup {VarObj(p) : p \in RefPaths}
    \cup {Obj(<<Prop("a", Dollar(p)), Prop("b", Num(1))>>) : p \in RefPaths}
    \cup {List(<<Dollar(p)>>) : p \in RefPaths}

\* a tool step with inputFrom = ["x"], top level (no item) or child of a map
InitRefs ==
  /\ variant \in {"core", "budget"}
  /\ plan = SeqPlan(0, "")
  /\ opts = [maxConcurrency |-> Absent, cache |-> FALSE, budget |-> FALSE,
             stepTimeoutMs |-> Absent, defaultStepTTLSeconds |-> Absent]
  /\ InitEngine
  /\ \E x \in StoreVals, its \in {Missing, Num(7)}, a \in ArgVals,
        it \in {Missing, Obj(<<Prop("url", Num(3))>>)} :
       keyIn = [store |-> [h \in {"x", "items"} |-> IF h = "x" THEN x ELSE its],
                args |-> a, input |-> x, item |-> it]
  /\ keyOut = <<>>

\* tool(args, {...ctx}): the argument the tool is called with
ResolveArgs ==
  /\ keyOut = <<>>
  /\ keyOut' = <<toolArgs(variant, keyIn.args, keyIn.input, keyIn.store, keyIn.item)>>
  /\ UNCHANGED <<variant, plan, opts, pc, pos, seq, out, outputs, err, ex, pools, rej,
                 items, results, cache, over, tstate, keyIn, events, peer>>

NextRefs == ResolveArgs

SpecRefs == InitRefs /\ [][NextRefs]_vars

(* ------------------------- runs to completion -------------------------- *)
(* Runs with a run-level or map-level maxConcurrency of 0 or less among    *)
(* the options. Every continuation that is ready is eventually run by the  *)
(* event loop, and every call and cache operation eventually settles.      *)
InitLive ==
  /\ variant \in {"core", "budget"}
  /\ plan \in {SeqPlan(1, "auto"), FanPlan(1, Absent), BranchPlan(0),
                MapPlan(1, Absent), MapPlan(1, 0), MapPlan(0, -2), ParMapPlan}
  /\ opts \in [maxConcurrency : {Absent, 0, -2, 1}, cache : BOOLEAN, budget : BOOLEAN,
                stepTimeoutMs : {Absent}, defaultStepTTLSeconds : {Absent}]
  /\ InitEngine
  /\ keyIn = NoKeyIn
  /\ keyOut = <<>>

SpecLive == InitLive /\ [][Next]_vars /\ WF_vars(Next)

(* ====================================================================== *)
(*                              Properties                                *)
(* ====================================================================== *)
Busy(r) == r.st \in ({"queued", "woken"} \cup InFlightStates) \/ r.slot
\* the units the retry wrapper runs: plan leaves, and map elements in part_007
Wrapped == {u \in Units : HasStep(u[1]) /\ ~IsBare(u) /\ LeafOf(u).kind \in LeafKinds}

\* C1: a leaf step with guard.retry.max = N (absent = 0) never gets more than
\* N+1 collaborator calls in one execution, and an execution in which every
\* attempt ended in a failed call raises the call's error after exactly N+1 calls.
C1_RetryBound ==
  \A u \in Wrapped :
    /\ ex[u].calls <= MaxOf(LeafOf(u)) + 1
    /\ (ex[u].st = "raised" /\ ex[u].nfail = ex[u].attempt + 1)
         => (ex[u].calls = MaxOf(LeafOf(u)) + 1 /\ ex[u].err = "call")
    /\ (ex[u].st = "backoff" /\ ex[u].nfail = ex[u].attempt)
         => ex[u].calls <= MaxOf(LeafOf(u))
C1_Witness ==
  \E u \in Wrapped :
    /\ MaxOf(LeafOf(u)) >= 1
    /\ ex[u].st = "raised"
    /\ ex[u].nfail = MaxOf(LeafOf(u)) + 1
    /\ ex[u].calls = MaxOf(LeafOf(u)) + 1

\* C2: whenever an execution starts, a step:start is emitted or a collaborator
\* is called, the unit belongs to the entry the top-level loop is at, and no
\* unit of an earlier entry is still queued, running, sleeping or holding a slot.
Acted(u) ==
  \/ ex'[u].runs # ex[u].runs
  \/ ex'[u].starts > ex[u].starts
  \/ ex'[u].calls > ex[u].calls
C2_TopLevelOrder ==
  [][\A u \in Units :
       Acted(u) => /\ ex'[u].owner = pos'
                   /\ \A v \in Units : Busy(ex'[v]) => ex'[v].owner = pos']_vars
C2_Witness ==
  /\ plan.steps[1].kind = "parallel"
  /\ pos = 2
  /\ ex[<<"a", 0>>].owner = 2 /\ ex[<<"a", 0>>].calls >= 1
  /\ ex[<<"b", 0>>].owner = 1 /\ ex[<<"b", 0>>].st = "done"
  /\ ex[<<"c", 0>>].owner = 1 /\ ex[<<"c", 0>>].st = "done"

\* C3: once any leaf execution has raised, runPlan never returns an outputs
\* object; when runPlan raises, no outputs object exists and the error is the
\* error of a raised execution (or was raised by the dispatch itself).
C3_NoPartialSuccess ==
  /\ (\E u \in Units : ex[u].st = "raised") => (pc # "returned" /\ outputs = <<>>)
  /\ pc = "raised" =>
       /\ outputs = <<>>
       /\ \/ err \in {"invalid", "budget"}
          \/ \E u \in Units : ex[u].st = "raised" /\ ex[u].err = err
C3_Witness ==
  /\ pc = "raised"
  /\ err = "call"
  /\ Entry.kind = "parallel"
  /\ ex[<<"a", 0>>].st = "raised"
  /\ ex[<<"b", 0>>].st = "done"
  /\ ex[<<"c", 0>>].st = "done"

\* C4: once a branch entry has selected its sequence, a step named only in a
\* sequence that was not selected is never executed, also not when the top-level
\* loop reaches that step's own entry.
Range(q) == {q[i] : i \in 1..Len(q)}
NamedIn(s) == UNION {Range(s.branches[i].then) : i \in 1..Len(s.branches)} \cup Range(s.else)
BranchTaken(i) == pos > i \/ (pos = i /\ pc \in {"branch", "await", "raised"})
C4_UnselectedNeverRuns ==
  \A i \in 1..NSteps :
    (plan.steps[i].kind = "branch" /\ BranchTaken(i)) =>
      \A id \in NamedIn(plan.steps[i]) \ Range(BranchSeq(plan.steps[i])) :
        ex[<<id, 0>>].runs = 0

\* C5: the object runPlan returns has exactly the ids of plan.outputs as keys,
\* each mapped to the result of that step's execution, or to undefined for an
\* id that no execution produced a result for.
C5_OutputProjection ==
  pc = "returned" =>
    /\ DOMAIN outputs = Range(plan.outputs)
    /\ \A id \in DOMAIN outputs :
         outputs[id] = IF ex[<<id, 0>>].st = "done" THEN ex[<<id, 0>>].ret ELSE Undef
C5_Witness ==
  /\ pc = "returned"
  /\ DOMAIN outputs = {"synth", "fan"}
  /\ outputs["fan"] = Undef
  /\ outputs["synth"] = Val(StepCode("synth"))
  /\ \A id \in {"a", "b", "c"} : ex[<<id, 0>>].runs > 0 /\ out[id] # Undef

\* C6: an execution that found a non-null value under its cache key when it
\* was reached makes no collaborator call, emits exactly one step:done carrying
\* that value, returns it, and it is what the outputs Map then holds for the step.
C6_CacheHit ==
  \A u \in Wrapped :
    ~IsNullish(ex[u].pre) =>
      /\ ex[u].calls = 0
      /\ ex[u].st \in {"cacheget", "done"}
      /\ ex[u].st = "done" =>
           /\ ex[u].dones = 1 /\ ex[u].doneVal = ex[u].pre /\ ex[u].ret = ex[u].pre
           /\ (~IsElem(u) /\ ex[u].via = "main" /\ pos > ex[u].owner) => out[u[1]] = ex[u].pre
           /\ (~IsElem(u) /\ ex[u].via = "sem" /\ ~ex[u].slot) => out[u[1]] = ex[u].pre
C6_Witness ==
  /\ variant = "core"
  /\ ex[<<"s1", 0>>].pre = CachedValue
  /\ ex[<<"s1", 0>>].st = "done"
  /\ ex[<<"s1", 0>>].calls = 0
  /\ ex[<<"s1", 0>>].doneVal = CachedValue
  /\ out["s1"] = CachedValue
  /\ pos = 2

\* C7 (as claimed): when a map step with fromItemAsInput over n items has
\* completed, the collaborator was invoked exactly once per element, with that
\* element, and the output has length n with element i's result at position i.
MapDone(m) == HasStep(m) /\ StepOf(m).fromItemAsInput /\ ex[<<m, 0>>].st = "done"
ElemResult(item) == Val(100 + item.n)
C8_PoolBound ==
  Cardinality({t \in PoolTasks : tstate[t] = "running"}) <= pools["sem"].limit

\* C9: a parallel step that declares maxConcurrency = k never has more than k
\* of its children in flight.
ChildrenInFlight(i) ==
  {c \in Range(plan.steps[i].children) :
     /\ ex[<<c, 0>>].via = "sem"
     /\ ex[<<c, 0>>].owner = i
     /\ ex[<<c, 0>>].st \in InFlightStates}
C9_GroupLimit ==
  \A i \in 1..NSteps :
    (plan.steps[i].kind = "parallel" /\ plan.steps[i].maxConcurrency # Absent) =>
      Cardinality(ChildrenInFlight(i)) <= plan.steps[i].maxConcurrency

\* C10: a budget check that fails during a leaf step ends the step at once:
\* the step is never found sleeping before a retry because of a budget error.
C10_BudgetFatal ==
  \A u \in Units : ex[u].err = "budget" => ex[u].st = "raised"

\* C11: runPlan never returns successfully after a leaf call's completion was
\* observed at an elapsed time above budget.maxLatencyMs.
C11_BudgetRecheck ==
  pc = "returned" => \A u \in Units : ~ex[u].late

\* C12: a cache.get that throws is treated as a miss: the execution it happened
\* in is neither raised by it nor sleeping before a retry because of it, and
\* no retry attempt was spent on it.
C12_CacheGetIsMiss ==
  \A u \in Wrapped :
    ex[u].err = "cacheget" =>
      /\ ex[u].st \notin {"raised", "backoff"}
      /\ ex[u].retries <= ex[u].nfail

\* C13: a cache.set that throws after a successful call is swallowed: the
\* execution returns that call's result with a step:done and the collaborator
\* is not called again because of it.
C13_CacheSetSwallowed ==
  \A u \in Wrapped :
    ex[u].err = "cacheset" =>
      /\ ex[u].st = "done"
      /\ ex[u].dones = 1
      /\ ex[u].calls = ex[u].nfail + 1

\* C14: two inputs that are equal up to the insertion order of object keys,
\* at any nesting depth, give the same step the same auto cache key.
RECURSIVE SameUpToOrder(_, _)
SameUpToOrder(v, w) ==
  /\ v.t = w.t
  /\ v.n = w.n
  /\ Len(v.kv) = Len(w.kv)
  /\ IF v.t = "obj"
     THEN \A i \in 1..Len(v.kv) :
            \E j \in 1..Len(w.kv) :
              /\ w.kv[j].key = v.kv[i].key
              /\ SameUpToOrder(v.kv[i].val, w.kv[j].val)
     ELSE \A i \in 1..Len(v.kv) : SameUpToOrder(v.kv[i].val, w.kv[i].val)
C14_AutoKeyStable ==
  (keyOut # <<>> /\ SameUpToOrder(keyIn.v, keyIn.w)) => keyOut[1] = keyOut[2]
C14_Witness ==
  /\ keyOut # <<>>
  /\ keyIn.v = Obj(<<Prop("a", Obj(<<Prop("a", Num(1)), Prop("b", Num(2))>>)),
                     Prop("b", Num(1))>>)
  /\ keyIn.w = Obj(<<Prop("b", Num(1)),
                     Prop("a", Obj(<<Prop("b", Num(2)), Prop("a", Num(1))>>))>>)
  /\ keyOut[1] = keyOut[2]

\* C15: a structurally invalid plan is rejected before execution starts: when
\* runPlan raises for an invalid child or branch entry, no step:start was
\* emitted and no collaborator was called.
C15_RejectedBeforeStart ==
  (pc = "raised" /\ err = "invalid") =>
    \A u \in Units : ex[u].starts = 0 /\ ex[u].calls = 0

\* C16: a step whose inputFrom names an id that is no step of the plan is never
\* handed to its collaborator.
Dangling(s) == \E i \in 1..Len(s.inputFrom) : ~HasStep(s.inputFrom[i])
C16_DanglingInputRejected ==
  \A u \in Wrapped : Dangling(LeafOf(u)) => ex[u].calls = 0

\* C18: a parallel group raises for an invalid child only when a child is
\* missing, a parallel or a branch; a map child is run inside the group.
C18_MapInParallel ==
  (pc = "raised" /\ err = "invalid" /\ Entry.kind = "parallel") =>
    \E c \in Range(Entry.children) :
      ~HasStep(c) \/ StepOf(c).kind \in {"parallel", "branch"}

\* C17: the retry wrapper applies to map children: an element whose execution
\* raised for a failed call had max+1 failed calls, and a map that rejected
\* for a failed call has an element that failed max+1 times.
Elems(m) == {u \in Units : u[1] = m /\ IsElem(u) /\ u[2] <= Len(items)}
C17_MapChildRetried ==
  \A m \in MapIds :
    HasStep(m) =>
      /\ \A u \in Elems(m) :
           (ex[u].st = "raised" /\ ex[u].err = "call") =>
             ex[u].nfail = MaxOf(LeafOf(u)) + 1
      /\ (ex[<<m, 0>>].st = "raised" /\ ex[<<m, 0>>].err = "call") =>
           \E u \in Elems(m) : ex[u].nfail = MaxOf(LeafOf(u)) + 1

\* C19: no step event and no done event is delivered before the plan event; a
\* run that returned delivered exactly one done event, carrying the returned
\* outputs, and nothing is delivered after it; a run that raised delivered no
\* done event and never delivers one.
StepEvents(r) == r.starts + r.retries + r.dones
C19_EventLifecycle ==
  /\ [](/\ events.plan <= 1
        /\ events.plan = 0 => (events.done = 0 /\ \A u \in Units : StepEvents(ex[u]) = 0)
        /\ pc = "returned" => (events.done = 1 /\ events.doneOutputs = outputs)
        /\ pc # "returned" => events.done = 0)
  /\ [][/\ events.done > 0 =>
            (events' = events /\ \A u \in Units : StepEvents(ex'[u]) = StepEvents(ex[u]))
        /\ pc = "raised" => events'.done = 0]_vars
C19_Witness ==
  /\ pc = "returned"
  /\ events.plan = 1 /\ events.done = 1
  /\ DOMAIN events.doneOutputs = {"synth", "fan"}
  /\ events.doneOutputs["synth"] = Val(StepCode("synth"))
  /\ ex[<<"a", 0>>].retries > 0

\* C20: a group rejects as soon as one child has rejected, whatever its
\* siblings are doing; the rejection changes no sibling's execution, and once
\* runPlan has raised it stays raised and never builds an outputs object.
C20_FailFast ==
  /\ [](/\ (pc = "awaitAll" /\ rej["sem"] # NoErr) => ENABLED JoinAll
        /\ \A m \in MapIds :
             (ex[<<m, 0>>].st = "mapwait" /\ rej["map"] # NoErr) => ENABLED MapJoin(<<m, 0>>)
        /\ pc = "raised" => outputs = <<>>)
  /\ [][/\ (pc = "awaitAll" /\ pc' = "raised") => ex' = ex
        /\ \A m \in MapIds :
             (ex[<<m, 0>>].st = "mapwait" /\ ex'[<<m, 0>>].st = "raised") =>
               \A u \in Units \ {<<m, 0>>} : ex'[u] = ex[u]
        /\ pc = "raised" => (pc' = "raised" /\ outputs' = <<>>)]_vars
C20_Witness ==
  /\ pc = "raised"
  /\ err = "call"
  /\ Entry.kind = "parallel"
  /\ ex[<<"a", 0>>].st = "raised"
  /\ ex[<<"c", 0>>].st = "calling"
  /\ ex[<<"c", 0>>].owner = pos

\* C21: two runPlan invocations on one cache never hold each other back: a
\* pending cache.get or call of either completes whatever the other is doing,
\* so both can miss and both call the collaborator. The cache only memoizes:
\* an execution that completed by a call has stored its key, and an execution
\* makes a call only if its cache.get found nothing.
C21_NoMutualExclusion ==
  /\ ex[PeerUnit].st = "cacheget" => ENABLED CacheGetReturn(PeerUnit)
  /\ peer.st = "cacheget" => ENABLED PeerCacheGetReturn
  /\ ex[PeerUnit].st = "calling" => ENABLED CallOk(PeerUnit)
  /\ peer.st = "calling" => ENABLED PeerCallOk
  /\ \A r \in {ex[PeerUnit], peer} :
       /\ (r.st = "done" /\ r.key # NoKey) => CacheHas(r.key)
       /\ (r.st = "done" /\ r.calls = 0) => (r.key # NoKey /\ r.ret = CacheGet(r.key))
C21_Witness ==
  /\ ex[PeerUnit].key # NoKey
  /\ peer.key = ex[PeerUnit].key
  /\ ex[PeerUnit].st = "done" /\ peer.st = "done"
  /\ ex[PeerUnit].calls = 1 /\ peer.calls = 1
  /\ ex[PeerUnit].nfail = 0 /\ peer.nfail = 0
  /\ Cardinality(cache) = 1

\* C22: in one execution of a leaf step, step:start is emitted exactly once,
\* before the first attempt; a retry does not emit it again.
C22_StartOnce ==
  \A u \in Wrapped : ex[u].starts <= 1

\* C23: the k-th retry of a leaf execution is announced by a step:retry event
\* carrying attempt = k and is followed by a sleep of backoffMs * k, with
\* backoffMs = 400 when the policy omits it; k never exceeds guard.retry.max.
C23_RetrySchedule ==
  \A u \in Wrapped :
    LET r == ex[u]
        s == LeafOf(u)
    IN /\ r.announced = r.retries
       /\ r.retries <= MaxOf(s)
       /\ r.st = "backoff" =>
            /\ r.retries >= 1
            /\ r.sleep = (IF s.backoffMs = Absent THEN 400 ELSE s.backoffMs) * r.retries
C23_Witness ==
  /\ ex[<<"x", 0>>].st = "backoff"
  /\ ex[<<"x", 0>>].retries = 2
  /\ ex[<<"x", 0>>].announced = 2
  /\ StepOf("x").backoffMs = Absent
  /\ ex[<<"x", 0>>].sleep = 800

\* C24: a result the schema rejects is one failed attempt like a thrown
\* error: it uses up one retry (or raises when none is left), and the
\* rejected value is neither returned, nor carried by step:done, nor stored.
C24_SchemaRejectIsFailure ==
  \A u \in Wrapped :
    LET r == ex[u]
        s == LeafOf(u)
    IN s.schema =>
         /\ r.nfail + r.nrej + r.ntimeout = r.retries + (IF r.st = "raised" THEN 1 ELSE 0)
         /\ r.calls <= MaxOf(s) + 1
         /\ (r.st = "raised" /\ r.err = "schema") => (r.retries = MaxOf(s) /\ r.nrej >= 1)
         /\ r.st \in {"cacheset", "done"} => safeParse(r.ret).success
         /\ r.dones > 0 => safeParse(r.doneVal).success
         /\ r.nrej > 0 =>
              /\ ~safeParse(r.rejVal).success
              /\ out[u[1]] # r.rejVal
              /\ \A e \in cache : e.val # r.rejVal
              /\ pc = "returned" => outputs[u[1]] # r.rejVal
C24_Witness ==
  /\ StepOf("x").schema
  /\ ex[<<"x", 0>>].nrej = 1
  /\ ex[<<"x", 0>>].rejVal = Val(1)
  /\ ex[<<"x", 0>>].retries = 1
  /\ ex[<<"x", 0>>].calls = 2
  /\ ex[<<"x", 0>>].st = "done"
  /\ ex[<<"x", 0>>].doneVal = Val(10)
  /\ pc = "returned" /\ outputs["x"] = Val(10)

\* C25: a call under a timeout (the step's timeoutMs, else the run-level
\* stepTimeoutMs) can end in a timeout; the timeout is retried like any other
\* failure; and every time the timer fires, the cancellation signal handed to
\* the tool for that attempt is aborted.
C25_TimeoutRetriedAndAborted ==
  \A u \in Wrapped :
    LET r == ex[u]
        s == LeafOf(u)
        claimed == IF s.timeoutMs # Absent THEN s.timeoutMs
                   ELSE IF opts.stepTimeoutMs # Absent THEN opts.stepTimeoutMs
                   ELSE 0
    IN /\ (r.st = "calling" /\ claimed > 0) => ENABLED Timeout(u)
       /\ (r.st = "raised" /\ r.err = "timeout") => r.retries = MaxOf(s)
       /\ s.kind = "tool" => r.aborts = r.ntimeout

\* C26: two executions of a tool step whose arguments resolve to different
\* values have different auto cache keys, and the later one is not served
\* the result the earlier one cached.
C26_KeyFromResolvedArgs ==
  LET a == peer
      b == ex[<<"s2", 0>>]
  IN (a.st = "done" /\ a.key # NoKey /\ b.key # NoKey /\ a.resolved # b.resolved) =>
       /\ a.key # b.key
       /\ b.st = "done" => (b.calls >= 1 /\ b.ret # a.ret)

\* C27: an execution of a leaf step that declares no cacheKey, or that runs
\* without a configured cache, has no cache key and makes no cache.get and no
\* cache.set call.
C27_UncachedWithoutKey ==
  \A u \in Wrapped :
    (LeafOf(u).cacheKey = "" \/ ~opts.cache) =>
      /\ ex[u].key = NoKey
      /\ ex[u].st \notin {"cacheget", "cacheset"}

\* What C28 says of every cache write apart from its TTL: cache.set is pending
\* only after a call of this attempt returned a value that passed validation,
\* it carries that value, step:done has not been emitted yet, and the cache
\* entry of the key changes only through it: an execution that is not done
\* has left the entry as it found it.
WritesOnlyOnSuccess(u) ==
  LET r == ex[u]
      s == LeafOf(u)
  IN /\ r.st = "cacheset" =>
          /\ r.calls = r.nfail + r.nrej + r.ntimeout + 1
          /\ r.ret \in Returns(u, r.arg)
          /\ s.schema => safeParse(r.ret).success
          /\ r.dones = 0
     /\ (r.key # NoKey /\ CacheGet(r.key) # r.pre) =>
          (r.st = "done" /\ r.dones = 1 /\ CacheGet(r.key) = r.ret)

\* C28 (as claimed): cache.set is called only after a successful, validated
\* call, with its value, before step:done, and with a TTL of
\* defaultStepTTLSeconds (300 when absent).
C28_CacheWrite ==
  \A u \in Wrapped :
    /\ WritesOnlyOnSuccess(u)
    /\ ex[u].st = "cacheset" =>
         ex[u].ttl = (IF opts.defaultStepTTLSeconds = Absent THEN 300
                      ELSE opts.defaultStepTTLSeconds)

\* C28 (amended): as claimed, but the TTL planner.ts passes is
\* max(0, defaultStepTTLSeconds): a negative setting is passed as 0 there and
\* unchanged in part_007.
C28_CacheWriteClampedTtl ==
  \A u \in Wrapped :
    /\ WritesOnlyOnSuccess(u)
    /\ ex[u].st = "cacheset" =>
         ex[u].ttl = (IF opts.defaultStepTTLSeconds = Absent THEN 300
                      ELSE IF variant = "core" /\ opts.defaultStepTTLSeconds < 0 THEN 0
                      ELSE opts.defaultStepTTLSeconds)
C28_Witness ==
  /\ variant = "core"
  /\ opts.defaultStepTTLSeconds = -5
  /\ StepOf("x").schema
  /\ ex[<<"x", 0>>].nrej = 1
  /\ ex[<<"x", 0>>].st = "cacheset"
  /\ ex[<<"x", 0>>].ret = Val(10)
  /\ ex[<<"x", 0>>].ttl = 0
  /\ cache = {}

\* C29: whenever a leaf step is handed to its collaborator, the input it
\* receives is the run's base input when inputFrom is absent or empty, the
\* stored output of a when inputFrom = [a], and the array of the stored
\* outputs in inputFrom order when it names two or more ids; synth after the
\* group of a and b receives [A, B].
InputByRule(s) ==
  CASE Len(s.inputFrom) = 0 -> BaseInput
    [] Len(s.inputFrom) = 1 -> OutGet(s.inputFrom[1])
    [] OTHER -> Arr([i \in 1..Len(s.inputFrom) |-> OutGet(s.inputFrom[i])])
C29_InputResolution ==
  /\ [](ex[<<"synth", 0>>].calls > 0 =>
          ex[<<"synth", 0>>].arg = Arr(<<Val(StepCode("a")), Val(StepCode("b"))>>))
  /\ [][\A u \in Wrapped :
          (~IsElem(u) /\ ~HasArgs(LeafOf(u)) /\ ex'[u].calls > ex[u].calls) =>
            ex'[u].arg = InputByRule(LeafOf(u))]_vars
C29_Witness ==
  /\ plan.steps[1].kind = "parallel"
  /\ out["a"] = Val(StepCode("a")) /\ out["b"] = Val(StepCode("b"))
  /\ ex[<<"synth", 0>>].st = "calling"
  /\ ex[<<"synth", 0>>].arg = Arr(<<Val(StepCode("a")), Val(StepCode("b"))>>)
  /\ ex[<<"a", 0>>].arg = BaseInput

\* C30: while a branch entry is being run, the step ids still to run are a
\* tail of the then-sequence of the first branch whose condition is true,
\* also when that sequence is empty or a later branch matches too, and a tail
\* of the else-sequence exactly when no condition is true; with no match and
\* no else nothing is run and nothing is raised.
Matching(s) == {i \in 1..Len(s.branches) : evalCondition(s.branches[i].when)}
SeqByRule(s) ==
  IF Matching(s) = {} THEN s.else
  ELSE s.branches[CHOOSE i \in Matching(s) : \A j \in Matching(s) : i <= j].then
IsTail(q, full) == \E k \in 0..Len(full) : q = SubSeq(full, k + 1, Len(full))
C30_BranchOrder ==
  (pos <= NSteps /\ Entry.kind = "branch") =>
    /\ pc \in {"branch", "await"} => IsTail(seq, SeqByRule(Entry))
    /\ (pc = "raised" /\ SeqByRule(Entry) = <<>>) => err = "budget"

\* C31: a `${ref}` placeholder given as a tool's args resolves to the value
\* at exactly the dotted path ref of the outputs map, and to undefined when
\* that path or one of its intermediate values is absent; it never resolves
\* to the value stored at another path.
C31_ExactPath ==
  (keyOut # <<>> /\ keyIn.args.t = "str" /\ keyIn.args.n = 1) =>
    keyOut[1] = refValue(keyIn.store, PathOf(keyIn.args))

\* C40: a tool step without declared args receives its input, the data an
\* upstream step produced, unchanged: `${...}` strings and objects with a
\* var key inside that data are not resolved against the outputs map.
C40_InputPassedUnchanged ==
  (keyOut # <<>> /\ keyIn.args = Missing) => keyOut[1] = keyIn.input

\* C32: a map step whose itemsFrom output is not an array, or is missing,
\* makes runPlan raise an invalid-plan error: the walk never gets past the
\* map entry, no element of the map is executed, no output is stored for
\* the map step and runPlan does not return.
NotAnArray(s) == s.kind = "map" /\ ~IsArray(OutGet(s.itemsFrom))
C32_NonArrayRejected ==
  \A i \in 1..NSteps :
    NotAnArray(plan.steps[i]) =>
      /\ pos <= i
      /\ pc # "returned"
      /\ OutGet(plan.steps[i].id) = Undef
      /\ \A j \in 1..NItems : ex[<<plan.steps[i].id, j>>] = Ex0
      /\ ex[<<plan.steps[i].id, 0>>].st \in Terminal =>
           /\ ex[<<plan.steps[i].id, 0>>].st = "raised"
           /\ ex[<<plan.steps[i].id, 0>>].err = "invalid"

\* C33: the number of child invocations of a map step that are in flight
\* never exceeds the map step's maxConcurrency, or the run-level
\* maxConcurrency when the map declares none, also when the array has more
\* items than that.
ElemsInFlight(m) == {j \in 1..NItems : ex[<<m, j>>].st \in InFlightStates}
DeclaredLimit(s) == IF s.maxConcurrency = Absent THEN maxConc ELSE s.maxConcurrency
NewlyWoken == {v \in PoolTasks : tstate[v] = "queued" /\ tstate'[v] = "woken"}
Settling == {t \in PoolTasks : tstate[t] = "running" /\ tstate'[t] \in {"fulfilled", "rejected"}}
C34_FifoRelease ==
  [][/\ \A t \in PoolTasks :
          (tstate[t] = "new" /\ tstate'[t] = "queued") =>
            pools'["sem"].queue = Append(pools["sem"].queue, t)
     /\ \A t \in PoolTasks : tstate[t] = "queued" => tstate'[t] \in {"queued", "woken"}
     /\ Settling = {} => NewlyWoken = {} /\ Len(pools'["sem"].queue) >= Len(pools["sem"].queue)
     /\ Settling # {} =>
          /\ Cardinality(Settling) = 1
          /\ pools'["sem"].active = pools["sem"].active - 1
          /\ IF pools["sem"].queue = <<>> THEN NewlyWoken = {}
             ELSE /\ NewlyWoken = {Head(pools["sem"].queue)}
                  /\ pools'["sem"].queue = Tail(pools["sem"].queue)]_vars
\* a release has woken the first waiter while a later caller still waits
C34_Witness ==
  /\ Len(pools["sem"].queue) > 0
  /\ \E t \in PoolTasks : tstate[t] = "woken"
  /\ \E t \in PoolTasks : tstate[t] = "rejected"

\* C35: at every point of a run the outputs map holds an entry for a model
\* or tool step only if the execution of that step has completed
\* successfully, and the entry is the value of that execution's step:done
\* event; a step that failed, was never reached or is in flight has no entry.
LeafIds == {plan.steps[i].id : i \in {j \in 1..NSteps : plan.steps[j].kind \in LeafKinds}}
C35_EntryOnlyAfterSuccess ==
  \A id \in LeafIds :
    OutGet(id) # Undef =>
      /\ ex[<<id, 0>>].st = "done"
      /\ ex[<<id, 0>>].dones = 1
      /\ ex[<<id, 0>>].doneVal = OutGet(id)

\* C36: when runPlan returns, no model or tool step of the plan has been
\* executed more than once, and a child of a parallel group has been executed
\* exactly once, by the group: the top-level walk does not run it again when
\* it reaches the child's own entry in plan.steps.
GroupChildren ==
  UNION {Range(plan.steps[i].children) : i \in {j \in 1..NSteps : plan.steps[j].kind = "parallel"}}
C36_ExecutedOnce ==
  pc = "returned" =>
    \A id \in LeafIds :
      /\ ex[<<id, 0>>].runs <= 1
      /\ id \in GroupChildren => ex[<<id, 0>>].runs = 1 /\ ex[<<id, 0>>].via = "sem"

Releasing(u) == ex[u].slot /\ ~ex'[u].slot
C38_ReleaseOnFailure ==
  /\ [](\A u \in Units : ex[u].st = "woken" => ENABLED Admit(u))
  /\ [][/\ \A u \in Units :
             Releasing(u) =>
               LET p == ex[u].via
               IN /\ ex[u].st \in Terminal
                  /\ pools'[p].active = pools[p].active - 1
                  /\ pools[p].queue # <<>> =>
                       /\ ex'[Head(pools[p].queue)].st = "woken"
                       /\ pools'[p].queue = Tail(pools[p].queue)
        /\ \A u \in Units :
             (pc = "raised" /\ ex[u].st = "woken" /\ ex'[u].st # "woken") =>
               /\ ex'[u].runs = ex[u].runs + 1
               /\ pools'[ex[u].via].active = pools[ex[u].via].active + 1]_vars
\* runPlan has raised because a child of the group failed; the failed child's
\* release has woken a sibling that has not started yet
C38_Witness ==
  /\ pc = "raised"
  /\ \E u \in Units :
       /\ ex[u].st = "woken"
       /\ rej[ex[u].via] # NoErr
       /\ \E v \in Units : ex[v].via = ex[u].via /\ ex[v].st = "raised" /\ ~ex[v].slot

\* C39: a leaf step never has two external calls in flight: an attempt's
\* call is not started while the call of an earlier attempt of the same
\* execution, one that timed out, is still running.
C39_OneCallInFlight ==
  \A u \in Units : ex[u].st = "calling" => ex[u].abandoned = 0
====
